---------------------------- MODULE Spec2Model ----------------------------
(***************************************************************************)
(* Model of pdf_excel_ingestor.py: the per-page extraction / normalization *)
(* pipeline and the dedupe classification of the main loop.                *)
(*                                                                         *)
(* A Python str is a sequence of one-character strings; characters outside *)
(* ASCII are named tokens ("NBSP", "gr_Alpha", ...).  Python's None is the *)
(* value None below.                                                       *)
(***************************************************************************)
EXTENDS Integers, Sequences, FiniteSets, TLC

\* ------------------------------------------------------------------ bounds
\* number of leading CPF digits that range over all of 0..9 in SpecCpf
CpfVarLen == 1
\* pages processed by one run (over all documents)
MaxPages == 3
\* documents handed to one run
MaxDocs == 2
\* longest string handed to normalize_ws and fix_homoglyphs
MaxStrLen == 3

\* ----------------------------------------------------------------- strings
None == <<"<None>">>

DigitChars == <<"0", "1", "2", "3", "4", "5", "6", "7", "8", "9">>

IsDigit(c) == \E i \in 1..10 : DigitChars[i] = c

DigitVal(c) == (CHOOSE i \in 1..10 : DigitChars[i] = c) - 1

\* str(n) for a one-digit n, and the digit string of a tuple of numbers
Digs(t) == [i \in 1..Len(t) |-> DigitChars[t[i] + 1]]

\* Python slice s[a:b] (0-based, end exclusive, clipped)
Slice(s, a, b) ==
    LET hi == IF b > Len(s) THEN Len(s) ELSE b
    IN  IF a >= hi THEN <<>> ELSE SubSeq(s, a + 1, hi)

\* Python truthiness of an Optional[str]
Truthy(s) == s # None /\ s # <<>>

\* s or ""
OrEmpty(s) == IF Truthy(s) THEN s ELSE <<>>

\* re.fullmatch(r"\d{n}", s)
AllDigits(s) == \A i \in 1..Len(s) : IsDigit(s[i])

clean_digits(s) == SelectSeq(OrEmpty(s), IsDigit)

\* --- whitespace ----------------------------------------------------------
INVISIBLE_SPACES == {"NBSP", "ZWSP", "BOM", "SHY"}

\* the class [ \t\r\f\v] of the collapsing regex
BlankChars == {" ", "TAB"}

\* what str.strip() removes (of the characters modelled)
StripChars == {" ", "TAB", "LF", "NBSP"}

RECURSIVE CollapseBlanks(_)
CollapseBlanks(s) ==
    IF s = <<>> THEN <<>>
    ELSE IF Head(s) \in BlankChars
         THEN IF Len(s) > 1 /\ s[2] \in BlankChars
              THEN CollapseBlanks(Tail(s))
              ELSE <<" ">> \o CollapseBlanks(Tail(s))
         ELSE <<Head(s)>> \o CollapseBlanks(Tail(s))

RECURSIVE LStrip(_)
LStrip(s) == IF s # <<>> /\ Head(s) \in StripChars THEN LStrip(Tail(s)) ELSE s

RECURSIVE RStrip(_)
RStrip(s) ==
    IF s # <<>> /\ s[Len(s)] \in StripChars
    THEN RStrip(SubSeq(s, 1, Len(s) - 1)) ELSE s

Strip(s) == RStrip(LStrip(s))

\* normalize_ws that strips before it replaces and collapses
normalize_ws_strip_first(s) ==
    IF s = None THEN None
    ELSE LET t == Strip(s)
             r == [i \in 1..Len(t) |->
                     IF t[i] \in INVISIBLE_SPACES THEN " " ELSE t[i]]
         IN  CollapseBlanks(r)

normalize_ws(s) ==
    IF s = None THEN None
    ELSE LET r == [i \in 1..Len(s) |->
                     IF s[i] \in INVISIBLE_SPACES THEN " " ELSE s[i]]
         IN  Strip(CollapseBlanks(r))

\* --- CPF -----------------------------------------------------------------
RECURSIVE WeightedSum(_, _)
\* sum(int(d) * w for d, w in zip(digs, range(w0, 1, -1)))
WeightedSum(digs, w0) ==
    IF digs = <<>> \/ w0 <= 1 THEN 0
    ELSE DigitVal(Head(digs)) * w0 + WeightedSum(Tail(digs), w0 - 1)

\* dig without the remainder-10 mapping
dig_keeps_ten(digs) == (WeightedSum(digs, Len(digs) + 1) * 10) % 11

dig(digs) ==
    LET r == (WeightedSum(digs, Len(digs) + 1) * 10) % 11
    IN  IF r = 10 THEN 0 ELSE r

\* "x" * 11 == s
AllSame(s) == \A i \in 1..Len(s) : s[i] = s[1]

\* str(n): one character for 0..9, two for 10
StrNat(n) == IF n < 10 THEN Digs(<<n>>) ELSE Digs(<<n \div 10, n % 10>>)

cpf_is_valid(cpf) ==
    LET d == clean_digits(cpf)
    IN  IF Len(d) # 11 \/ AllSame(d) THEN FALSE
        ELSE LET d1 == dig(Slice(d, 0, 9))
             IN  Slice(d, 9, 11) =
                   StrNat(d1) \o StrNat(dig(Slice(d, 0, 9) \o StrNat(d1)))

normalize_cpf(cpf) ==
    LET d == clean_digits(cpf)
    IN  IF Len(d) # 11 \/ ~cpf_is_valid(d) THEN None
        ELSE Slice(d, 0, 3) \o <<".">> \o Slice(d, 3, 6) \o <<".">>
               \o Slice(d, 6, 9) \o <<"-">> \o Slice(d, 9, 11)


\* --- dates ---------------------------------------------------------------
\* s.replace("\\", "/").replace("-", "/").replace(".", "/")
DateSeparators(s) ==
    [i \in 1..Len(s) |-> IF s[i] \in {"BACKSLASH", "-", "."} THEN "/" ELSE s[i]]

Num2(s, i) == DigitVal(s[i]) * 10 + DigitVal(s[i + 1])

DaysIn(m, y) ==
    IF m \in {4, 6, 9, 11} THEN 30
    ELSE IF m = 2
         THEN IF y % 4 = 0 /\ (y % 100 # 0 \/ y % 400 = 0) THEN 29 ELSE 28
         ELSE 31

\* dateutil's parse(s, dayfirst=True, yearfirst=False) on NN/NN/NNNN; any
\* other shape of the bounded inputs is a parse failure.  <<>> is failure.
dateparser_parse(s) ==
    IF ~(Len(s) = 10 /\ s[3] = "/" /\ s[6] = "/"
         /\ \A i \in {1, 2, 4, 5, 7, 8, 9, 10} : IsDigit(s[i]))
    THEN <<>>
    ELSE LET a == Num2(s, 1)
             b == Num2(s, 4)
             y == Num2(s, 7) * 100 + Num2(s, 9)
             d == IF b <= 12 THEN a ELSE b
             m == IF b <= 12 THEN b ELSE a
         IN  IF m >= 1 /\ m <= 12 /\ d >= 1 /\ d <= DaysIn(m, y) /\ y >= 1
             THEN <<d, m, y>> ELSE <<>>

\* dt.strftime("%d/%m/%Y")
strftime_dmy(dt) ==
    Digs(<<dt[1] \div 10, dt[1] % 10>>) \o <<"/">>
      \o Digs(<<dt[2] \div 10, dt[2] % 10>>) \o <<"/">>
      \o Digs(<<dt[3] \div 1000, (dt[3] \div 100) % 10,
                (dt[3] \div 10) % 10, dt[3] % 10>>)

normalize_date(s) ==
    IF ~Truthy(s) THEN None
    ELSE LET dt == dateparser_parse(DateSeparators(normalize_ws(s)))
         IN  IF dt = <<>> THEN None ELSE strftime_dmy(dt)

\* --- PIS -----------------------------------------------------------------
normalize_pis(val) ==
    IF ~Truthy(val) THEN None
    ELSE LET d == clean_digits(val)
         IN  IF Len(d) = 11 THEN d ELSE None

\* --- phone ---------------------------------------------------------------
\* returns the pair <<ddd, celular>>
normalize_phone(ddd, fone) ==
    LET ddd_0 == IF Truthy(ddd) THEN clean_digits(ddd) ELSE None
        cel_0 == IF Truthy(fone) THEN clean_digits(fone) ELSE None
        \* if not (ddd_d and len(ddd_d) == 2): ddd_d = None
        ddd_1 == IF Truthy(ddd_0) /\ Len(ddd_0) = 2 THEN ddd_0 ELSE None
        \* if cel_d: 8 -> "9" + cel_d; 10 -> "9" + cel_d[2:]; 11 -> cel_d[2:]
        cel_1 == IF ~Truthy(cel_0) THEN cel_0
                 ELSE IF Len(cel_0) = 8 THEN <<"9">> \o cel_0
                 ELSE IF Len(cel_0) = 10 THEN <<"9">> \o Slice(cel_0, 2, 10)
                 ELSE IF Len(cel_0) = 11 THEN Slice(cel_0, 2, 11)
                 ELSE cel_0
        \* (still inside "if cel_d:")  if not ddd_d: ddd_d = cel_d[:2]
        ddd_2 == IF Truthy(cel_0) /\ ~Truthy(ddd_1)
                 THEN Slice(cel_1, 0, 2) ELSE ddd_1
    IN  IF Truthy(cel_1) /\ Len(cel_1) = 9
        THEN <<ddd_2, Slice(cel_1, 0, 5) \o <<"-">> \o Slice(cel_1, 5, 9)>>
        ELSE <<ddd_2, cel_1>>

\* re.fullmatch(r"\d{2}", s)
IsDDDShape(s) == Len(s) = 2 /\ AllDigits(s)

\* re.fullmatch(r"\d{5}-\d{4}", s)
IsCelShape(s) ==
    /\ Len(s) = 10
    /\ s[6] = "-"
    /\ \A i \in (1..10) \ {6} : IsDigit(s[i])

\* --- homoglyphs ----------------------------------------------------------
\* keys of HOMOGLYPH_MAP (a sample of the table: one-to-one and one-to-many)
HomoglyphKeys == {"gr_Alpha", "gr_Theta", "cy_En", "cy_o"}

\* the table without its entry for the Cyrillic small o
HOMOGLYPH_MAP_without_cy_o(c) ==
    CASE c = "gr_Alpha" -> <<"A">>
      [] c = "gr_Theta" -> <<"T", "h">>
      [] c = "cy_En" -> <<"H">>
      [] OTHER -> <<c>>

HOMOGLYPH_MAP(c) ==
    CASE c = "gr_Alpha" -> <<"A">>
      [] c = "gr_Theta" -> <<"T", "h">>
      [] c = "cy_En" -> <<"H">>
      [] c = "cy_o" -> <<"o">>
      [] OTHER -> <<c>>

\* code points in U+0370..03FF or U+0400..04FF ("gr_pi", "cy_Zhe": not keys)
GreekCyrillic == HomoglyphKeys \cup {"gr_pi", "cy_Zhe"}

\* code points above U+024F for which str.isspace() is false
HighNonSpace == {"ZWSP", "BOM"}

looks_non_latin(s) ==
    /\ Truthy(s)
    /\ \E i \in 1..Len(s) : s[i] \in GreekCyrillic \cup HighNonSpace

RECURSIVE Translate(_)
Translate(s) ==
    IF s = <<>> THEN <<>> ELSE HOMOGLYPH_MAP(Head(s)) \o Translate(Tail(s))

fix_homoglyphs(s) == IF ~Truthy(s) THEN s ELSE Translate(s)

\* ------------------------------------------------------------- extraction
\* The keys of cfg.output_columns that the model carries: the validated
\* fields with an unconditional issue (cpf, the two dates), a validated
\* field without one (pis, ddd, celular), the three names, the registration
\* number, an unvalidated labelled field (nacionalidade) and numero.
OutputFields ==
    {"cpf", "titular_matricula", "titular_nome", "beneficiario_nome",
     "mae_nome", "nascimento", "data_admissao", "pis", "ddd", "celular",
     "nacionalidade", "numero"}

\* "b or a": the later source is preferred to the value already there
Or_later_first(a, b) == IF Truthy(b) THEN b ELSE a

\* a or b on Optional[str]
Or(a, b) == IF Truthy(a) THEN a ELSE b

\* A page text is represented by what the regular expressions of the
\* locator find in it (t.cpf: label-then-pattern or free pattern match for
\* the CPF, t.cel_*: the match of the phone pattern on a "celular" line,
\* t.lab_*: grab_after_label, t.near: _fallback_name_near_token,
\* t.addr_numero: the building number found in the address window, ...).

\* t.cel_found: some line has a phone label and the digit pattern;
\* t.cel_label: the label of that line ("cel." stands for "cel." followed
\* at once by the digits, the only way the pattern \bcel\.\b matches);
\* labels = [*cfg.synonyms.get("celular", []), "celular", "cel."]
extract_phone_labeled(t, cfg) ==
    IF ~(t.cel_found /\ t.cel_label \in cfg.syn_celular \cup {"celular", "cel."})
    THEN <<None, None>>
    ELSE LET n == normalize_phone(t.cel_ddd, t.cel_num)
             ddd_n == IF Truthy(n[1]) /\ ~IsDDDShape(n[1]) THEN None ELSE n[1]
             cel_n == IF Truthy(n[2]) /\ ~IsCelShape(n[2]) THEN None ELSE n[2]
         IN  <<ddd_n, cel_n>>

\* the copy made towards the title-holder name only
cross_fill_to_titular_only(tit, ben) ==
    <<IF ~Truthy(tit) /\ Truthy(ben) THEN ben ELSE tit, ben>>

\* if not titular_nome and beneficiario_nome: titular_nome = beneficiario_nome
\* if not beneficiario_nome and titular_nome: beneficiario_nome = titular_nome
\* returns <<titular_nome, beneficiario_nome>>
cross_fill(tit, ben) ==
    LET tit2 == IF ~Truthy(tit) /\ Truthy(ben) THEN ben ELSE tit
    IN  <<tit2, IF ~Truthy(ben) /\ Truthy(tit2) THEN tit2 ELSE ben>>

\* the building number found in the address window is written to the record
forced_numero_keeps_address(numero_from_addr) == numero_from_addr

\* out["numero"] = None, whatever _numero_from_addr is
forced_numero(numero_from_addr) == None

extract_fields(t, cfg) ==
    LET \* header pattern seeds registration number and names
        tm0 == IF Truthy(t.hdr_id) THEN t.hdr_id ELSE None
        tn0 == IF Truthy(t.hdr_name) THEN t.hdr_name ELSE None
        bn0 == IF Truthy(t.hdr_name) THEN t.hdr_name ELSE None
        cpf == IF "cpf" \in cfg.patterns THEN t.cpf ELSE None
        nasc == IF "data" \in cfg.patterns THEN t.nasc ELSE None
        adm == IF "data" \in cfg.patterns THEN t.adm ELSE None
        pis == IF "pis" \in cfg.patterns THEN t.pis ELSE None
        \* cep_from_addr, _numero_from_addr = extract_cep_and_numero_from_address(..)
        numero_from_addr == t.addr_numero
        ph == extract_phone_labeled(t, cfg)
        bn1 == Or(bn0, t.lab_benef)
        mae == IF Truthy(t.mae_colon) THEN t.mae_colon ELSE t.lab_mae
        tn1 == Or(tn0, t.lab_tit)
        tm1 == Or(Or(tm0, t.lab_mat), t.fb_mat)
        cpf_digits == clean_digits(OrEmpty(cpf))
        \* _fallback_name_near_token(text, cpf_digits): None without a token
        near == IF cpf_digits = <<>> THEN None ELSE t.near
        bn2 == IF ~Truthy(bn1) THEN Or(near, bn1) ELSE bn1
        tn2 == cross_fill(tn1, bn2)[1]
        bn3 == cross_fill(tn1, bn2)[2]
    IN  [k \in OutputFields |->
           CASE k = "cpf" -> cpf
             [] k = "titular_matricula" -> tm1
             [] k = "titular_nome" -> tn2
             [] k = "beneficiario_nome" -> bn3
             [] k = "mae_nome" -> mae
             [] k = "nascimento" -> nasc
             [] k = "data_admissao" -> adm
             [] k = "pis" -> pis
             [] k = "ddd" -> ph[1]
             [] k = "celular" -> ph[2]
             [] k = "nacionalidade" -> t.nacionalidade
             [] k = "numero" -> forced_numero(numero_from_addr)]

NameKeys == {"mae_nome", "beneficiario_nome", "titular_nome"}

\* a text in which the locator finds nothing
NoText ==
    [hdr_id |-> None, hdr_name |-> None, cpf |-> None, nasc |-> None,
     adm |-> None, pis |-> None, cel_found |-> FALSE, cel_ddd |-> None,
     cel_num |-> None, lab_benef |-> None, lab_tit |-> None, lab_mat |-> None,
     fb_mat |-> None, mae_colon |-> None, lab_mae |-> None, near |-> None,
     nacionalidade |-> None, addr_numero |-> None, cel_label |-> "celular"]

\* --- OCR of a single page -------------------------------------------------
\* page.ocr1 / page.ocr2: what happens when the ocrmypdf backend and the
\* pdf2image + tesseract backend are run on the page:
\*   "missing"  binary or library not installed
\*   "exit"     the tool ends with an error (CalledProcessError)
\*   "read"     exception while opening or reading the OCR output
\*   "empty"    the OCR output has no text
\*   "text"     the OCR output is page.ocrN.text
OcrFailures == {"missing", "exit", "read"}

\* the Optional[str] a backend returns: ok is its truthiness.  Every
\* failure is caught inside the function and becomes None.
ocr_single_page_text(page) ==
    IF page.ocr1.outcome \in OcrFailures THEN [ok |-> FALSE, text |-> NoText]
    ELSE IF page.ocr1.outcome = "empty" THEN [ok |-> FALSE, text |-> NoText]
    ELSE [ok |-> TRUE, text |-> page.ocr1.text]

ocr_single_page_text_tesseract(page) ==
    IF page.ocr2.outcome \in OcrFailures THEN [ok |-> FALSE, text |-> NoText]
    ELSE IF page.ocr2.outcome = "empty" THEN [ok |-> FALSE, text |-> NoText]
    ELSE [ok |-> TRUE, text |-> page.ocr2.text]

\* need_ocr without the force flag
need_ocr_ignores_flag(row, force_ocr) ==
    \E k \in NameKeys : looks_non_latin(OrEmpty(row[k]))

\* need_ocr = force_ocr or any(looks_non_latin(row.get(k) or "") for k in keys)
need_ocr(row, force_ocr) ==
    force_ocr \/ \E k \in NameKeys : looks_non_latin(OrEmpty(row[k]))

\* the backends fix_names_if_needed calls for the page, in call order
ocr_backends_called(row, page, force_ocr) ==
    IF ~need_ocr(row, force_ocr) THEN <<>>
    ELSE IF ocr_single_page_text(page).ok THEN <<"ocrmypdf">>
    ELSE <<"ocrmypdf", "tesseract">>

\* fix_names_if_needed that returns the record untouched when no backend
\* yields text
fix_names_if_needed_no_repair(row, page, cfg, force_ocr) ==
    LET repaired == [k \in OutputFields |->
                       IF k \in NameKeys THEN fix_homoglyphs(row[k]) ELSE row[k]]
        ocr_a == ocr_single_page_text(page)
        ocr_text == IF ocr_a.ok THEN ocr_a ELSE ocr_single_page_text_tesseract(page)
    IN  IF ~need_ocr(row, force_ocr) THEN repaired
        ELSE IF ~ocr_text.ok THEN row
        ELSE LET re_row == extract_fields(ocr_text.text, cfg)
             IN  [k \in OutputFields |->
                    IF k \in NameKeys /\ Truthy(re_row[k]) THEN re_row[k] ELSE row[k]]

\* fix_names_if_needed that takes every populated field of the re-extraction
fix_names_if_needed_all_fields(row, page, cfg, force_ocr) ==
    LET repaired == [k \in OutputFields |->
                       IF k \in NameKeys THEN fix_homoglyphs(row[k]) ELSE row[k]]
        ocr_a == ocr_single_page_text(page)
        ocr_text == IF ocr_a.ok THEN ocr_a ELSE ocr_single_page_text_tesseract(page)
    IN  IF ~need_ocr(row, force_ocr) THEN repaired
        ELSE IF ~ocr_text.ok THEN repaired
        ELSE LET re_row == extract_fields(ocr_text.text, cfg)
             IN  [k \in OutputFields |->
                    IF Truthy(re_row[k]) THEN re_row[k] ELSE row[k]]

\* fix_names_if_needed that prefers the text of the secondary backend
fix_names_if_needed_secondary_first(row, page, cfg, force_ocr) ==
    LET repaired == [k \in OutputFields |->
                       IF k \in NameKeys THEN fix_homoglyphs(row[k]) ELSE row[k]]
        ocr_b == ocr_single_page_text_tesseract(page)
        ocr_text == IF ocr_b.ok THEN ocr_b ELSE ocr_single_page_text(page)
    IN  IF ~need_ocr(row, force_ocr) THEN repaired
        ELSE IF ~ocr_text.ok THEN repaired
        ELSE LET re_row == extract_fields(ocr_text.text, cfg)
             IN  [k \in OutputFields |->
                    IF k \in NameKeys /\ Truthy(re_row[k]) THEN re_row[k] ELSE row[k]]

fix_names_if_needed(row, page, cfg, force_ocr) ==
    LET repaired == [k \in OutputFields |->
                       IF k \in NameKeys THEN fix_homoglyphs(row[k]) ELSE row[k]]
        ocr_a == ocr_single_page_text(page)
        ocr_text == IF ocr_a.ok THEN ocr_a ELSE ocr_single_page_text_tesseract(page)
    IN  IF ~need_ocr(row, force_ocr) THEN repaired
        ELSE IF ~ocr_text.ok THEN repaired
        ELSE LET re_row == extract_fields(ocr_text.text, cfg)
             IN  [k \in OutputFields |->
                    IF k \in NameKeys /\ Truthy(re_row[k]) THEN re_row[k] ELSE row[k]]

\* ----------------------------------------------------------- normalization
Issue(kind, field) == [kind |-> kind, field |-> field]

\* the "Campo obrigatorio ausente" issues of the fields in order
RECURSIVE RequiredIssues(_, _)
RequiredIssues(row, ks) ==
    IF ks = <<>> THEN <<>>
    ELSE (IF ~(Truthy(row[Head(ks)]) /\ Strip(row[Head(ks)]) # <<>>)
          THEN <<Issue("required", Head(ks))>> ELSE <<>>)
         \o RequiredIssues(row, Tail(ks))

\* the required-field loop run over every output column
required_keys_all_columns(cfg) ==
    <<"cpf", "titular_matricula", "titular_nome", "beneficiario_nome",
      "mae_nome", "nascimento", "data_admissao", "pis", "ddd", "celular",
      "nacionalidade", "numero">>

\* for k in cfg.required_fields
required_keys(cfg) == cfg.required_fields

\* the name loop left out
repair_names_skipped(row) == row

\* for nm in ("beneficiario_nome","titular_nome","mae_nome"):
\*     row[nm] = fix_homoglyphs(row.get(nm))
repair_names(row) ==
    [k \in OutputFields |->
       IF k \in NameKeys THEN fix_homoglyphs(row[k]) ELSE row[k]]

\* the final sweep left out
ws_sweep_skipped(row) == row

\* for k, v in list(row.items()): if isinstance(v, str): row[k] = normalize_ws(v)
ws_sweep(row) == [k \in OutputFields |-> normalize_ws(row[k])]

\* returns [row, issues]; cfg.required_fields is a sequence of field keys
clean_and_normalize(row, cfg) ==
    LET cpf == normalize_cpf(OrEmpty(row["cpf"]))
        i_cpf == IF ~Truthy(cpf) THEN <<Issue("cpf", "cpf")>> ELSE <<>>
        nasc == IF Truthy(row["nascimento"])
                THEN normalize_date(row["nascimento"]) ELSE row["nascimento"]
        i_nasc == IF ~Truthy(nasc) THEN <<Issue("date", "nascimento")>> ELSE <<>>
        adm == IF Truthy(row["data_admissao"])
               THEN normalize_date(row["data_admissao"]) ELSE row["data_admissao"]
        i_adm == IF ~Truthy(adm) THEN <<Issue("date", "data_admissao")>> ELSE <<>>
        pis == IF Truthy(row["pis"]) THEN normalize_pis(row["pis"]) ELSE row["pis"]
        ph == normalize_phone(row["ddd"], row["celular"])
        ddd == IF Truthy(ph[1]) /\ ~IsDDDShape(ph[1]) THEN None ELSE ph[1]
        cel == IF Truthy(ph[2]) /\ ~IsCelShape(ph[2]) THEN None ELSE ph[2]
        r1 == [k \in OutputFields |->
                 CASE k \in NameKeys -> repair_names(row)[k]
                   [] k = "cpf" -> cpf
                   [] k = "nascimento" -> nasc
                   [] k = "data_admissao" -> adm
                   [] k = "pis" -> pis
                   [] k = "ddd" -> ddd
                   [] k = "celular" -> cel
                   [] OTHER -> row[k]]
        r2 == ws_sweep(r1)
    IN  [row |-> r2,
         issues |-> i_cpf \o i_nasc \o i_adm
                      \o RequiredIssues(r2, required_keys(cfg))]

\* ------------------------------------------------------------------ inputs
S_CPF_A == Digs(<<1, 1, 1, 4, 4, 4, 7, 7, 7, 3, 5>>)
S_CPF_A_FMT ==
    <<"1", "1", "1", ".", "4", "4", "4", ".", "7", "7", "7", "-", "3", "5">>
S_CPF_B == Digs(<<1, 2, 3, 4, 5, 6, 7, 8, 9, 0, 9>>)
S_CPF_BAD == Digs(<<1, 1, 1, 4, 4, 4, 7, 7, 7, 3, 6>>)
S_M1 == <<"M", "1">>
S_M2 == <<"M", "2">>
S_HDR_ID == Digs(<<1, 2, 3, 4, 5, 6>>)
S_DATE == <<"0", "1", "-", "0", "2", "-", "1", "9", "9", "0">>
S_DATE_BAD == <<"3", "1", "/", "0", "2", "/", "1", "9", "9", "0">>
S_PIS == Digs(<<1, 2, 0, 3, 4, 5, 6, 7, 8, 9, 0>>)
S_PIS_BAD == Digs(<<1, 2, 0, 3>>)
S_NUM8 == Digs(<<8, 7, 6, 5, 4, 3, 2, 1>>)
S_NUM9 == Digs(<<9, 8, 7, 6, 5, 4, 3, 2, 1>>)
S_DDD == Digs(<<1, 1>>)
S_NAME == <<"A", "N", "A">>
S_NAME2 == <<"E", "V", "A">>
S_NAME_GR == <<"gr_Alpha", "N", "gr_Alpha">>
S_BR == <<"B", "R", "NBSP">>
S_NAME3 == <<"I", "V", "O">>
S_MAE_CY == <<"R", "cy_o", "S", "A">>
S_MAE == <<"R", "O", "S", "A">>
S_ADDR_NUM == Digs(<<1, 2>>)

NoOcr == [outcome |-> "missing", text |-> NoText]

Page(t) == [blank |-> FALSE, fails |-> FALSE, text |-> t, ocr1 |-> NoOcr, ocr2 |-> NoOcr]

\* a page whose text is empty after strip()
BlankPage == [blank |-> TRUE, fails |-> FALSE, text |-> NoText, ocr1 |-> NoOcr, ocr2 |-> NoOcr]

\* a page on which extract_fields raises (e.g. re.error from a malformed
\* configured pattern that is only applied when the page has the label)
FailingPage == [blank |-> FALSE, fails |-> TRUE, text |-> NoText, ocr1 |-> NoOcr, ocr2 |-> NoOcr]

\* a complete form: CPF, registration number, both dates, a name
GoodText(cpf, mat) ==
    [NoText EXCEPT !.cpf = cpf, !.lab_mat = mat, !.nasc = S_DATE,
                   !.adm = S_DATE, !.lab_tit = S_NAME]

\* the pages of the run
RunPages ==
    { Page(GoodText(S_CPF_A_FMT, S_M1)),
      Page([GoodText(S_CPF_A, S_M1) EXCEPT !.nasc = None]),
      Page([GoodText(S_CPF_B, S_M2) EXCEPT !.lab_tit = S_NAME_GR]),
      Page(GoodText(S_CPF_BAD, S_M1)),
      Page(GoodText(S_CPF_A, None)),
      Page(GoodText(None, S_M2)),
      BlankPage,
      FailingPage }

\* the pages of the single-page pipeline
RowTexts ==
    { [NoText EXCEPT !.cpf = c, !.hdr_id = h[1], !.hdr_name = h[2],
                     !.lab_mat = m, !.nasc = n, !.adm = a, !.pis = p,
                     !.cel_found = ph[1], !.cel_ddd = ph[2], !.cel_num = ph[3],
                     !.nacionalidade = nat, !.lab_tit = S_NAME2] :
        c \in {None, S_CPF_A_FMT, S_CPF_BAD},
        h \in {<<None, None>>, <<S_HDR_ID, S_NAME>>},
        m \in {None, S_M1},
        n \in {None, S_DATE, S_DATE_BAD},
        a \in {None, S_DATE},
        p \in {None, S_PIS, S_PIS_BAD},
        ph \in {<<FALSE, None, None>>, <<TRUE, None, S_NUM8>>,
                <<TRUE, None, S_NUM9>>, <<TRUE, S_DDD, S_NUM8>>,
                <<TRUE, S_DDD, S_NUM9>>},
        nat \in {None, S_BR} }

AllPatterns == {"cpf", "data", "pis"}

Configs ==
    { [required_fields |-> r, patterns |-> AllPatterns,
        syn_celular |-> {}] :
        r \in {<<>>, <<"titular_matricula">>, <<"cpf", "pis", "nacionalidade", "celular">>} }

RunConfigs ==
    { [required_fields |-> r, patterns |-> AllPatterns,
        syn_celular |-> {}] :
        r \in {<<>>, <<"titular_matricula">>} }

\* rows of the XLSX written by an earlier run: <<CPF cell, registration cell>>
PriorRows ==
    { {}, {<<S_CPF_A_FMT, S_M1>>},
      {<<S_CPF_A_FMT, S_M1>>, <<S_CPF_B, <<>>>>, <<None, S_M2>>} }

\* ------------------------------------------------------------------- state
VARIABLES
    config,         \* Config: required_fields, patterns
    args,           \* command line: relax_required, force_ocr
    pdfs,           \* number of documents collect_pdf_paths returned
    existing_keys,  \* keys read from the XLSX of an earlier run
    seen_in_run,    \* keys of this run
    rows_ok,        \* accepted records
    rows_err,       \* rejected records, each with its issues
    pc,             \* "run", "done", "aborted" (uncaught exception); "idle"
    doc,            \* documents opened so far
    remaining,      \* pages of the open document still to process
    pages_done,     \* pages taken from page_texts so far
    trace,          \* history: what became of each page, in order
    full_ocr,       \* documents on which a full-document OCR pass was run
    page_in,        \* single-page pipeline: the page
    raw_row,        \* single-page pipeline: the record
    row_issues,     \* single-page pipeline: the issue list
    stage,          \* single-page pipeline: "text", "raw", "fixed", "clean"
    first_row,      \* single-page pipeline: the record as first extracted
    ocr_calls,      \* single-page pipeline: OCR backends called, in order
    cpf_in,         \* normalize_cpf: argument
    cpf_out,        \* normalize_cpf: result
    cpf_pc,         \* normalize_cpf: "in", "out"
    str_in,         \* string function: argument
    str_out,        \* string function: results of successive applications
    str_pc          \* string function: which function is applied; "idle"

runVars ==
    <<pdfs, existing_keys, seen_in_run, rows_ok, rows_err, pc, doc, remaining,
      pages_done, trace, full_ocr>>

rowVars == <<page_in, raw_row, row_issues, stage, first_row, ocr_calls>>

cpfVars == <<cpf_in, cpf_out, cpf_pc>>

strVars == <<str_in, str_out, str_pc>>

vars == <<config, args, runVars, rowVars, cpfVars, strVars>>

EmptyRow == [k \in OutputFields |-> None]

RunIdle ==
    /\ pdfs = 0
    /\ existing_keys = {}
    /\ seen_in_run = {}
    /\ rows_ok = <<>>
    /\ rows_err = <<>>
    /\ pc = "idle"
    /\ doc = 0
    /\ remaining = 0
    /\ pages_done = 0
    /\ trace = <<>>
    /\ full_ocr = {}

RowIdle ==
    /\ page_in = BlankPage
    /\ raw_row = EmptyRow
    /\ row_issues = <<>>
    /\ stage = "idle"
    /\ first_row = EmptyRow
    /\ ocr_calls = <<>>

CpfIdle ==
    /\ cpf_in = None
    /\ cpf_out = None
    /\ cpf_pc = "idle"

StrIdle ==
    /\ str_in = None
    /\ str_out = <<>>
    /\ str_pc = "idle"

\* ------------------------------------------------------------ the main loop
read_existing_keys_from_xlsx(rows) ==
    LET keyOf(r) == <<clean_digits(OrEmpty(r[1])), Strip(OrEmpty(r[2]))>>
    IN  { keyOf(r) : r \in { q \in rows : keyOf(q)[1] # <<>> /\ keyOf(q)[2] # <<>> } }

\* cpf_d, mat, key of a normalized record
DedupeKey(r) ==
    <<clean_digits(OrEmpty(r["cpf"])), Strip(OrEmpty(r["titular_matricula"]))>>

\* "if cpf_d or mat"
is_valid_key_either(key) == key[1] # <<>> \/ key[2] # <<>>

\* if cpf_d and mat
is_valid_key(key) == key[1] # <<>> /\ key[2] # <<>>

\* the membership test on the run set instead of the prior set
in_existing_wrong_set(key, prior, run) == key \in run

\* the test against the prior output dropped
in_existing_never(key, prior, run) == FALSE

\* if key in existing_keys: continue
in_existing(key, prior, run) == key \in prior

\* the duplicate test dropped
in_seen_never(key, run) == FALSE

\* the duplicate test made after the page's own key went into the set
in_seen_counts_own_key(key, run) == key \in (run \cup {key})

\* if key in seen_in_run: issues.append("Duplicado (CPF+Matricula)")
in_seen(key, run) == key \in run

\* a record is accepted unless its CPF is bad
accepts_unless_cpf(iss) == \A i \in 1..Len(iss) : iss[i].kind # "cpf"

\* "if issues: rows_err.append(...) else: rows_ok.append(...)"
accepts(iss) == iss = <<>>

\* issues = [e for e in issues if not e.startswith("Campo obrigatorio ausente")]
relax(iss, relax_required) ==
    IF relax_required
    THEN SelectSeq(iss, LAMBDA e : e.kind # "required") ELSE iss

IsDupIssue(e) == e.kind = "dup"

Entry(outcome, key, iss, r) ==
    [doc |-> doc, outcome |-> outcome, key |-> key, issues |-> iss, row |-> r]

NoKey == <<<<>>, <<>>>>

Init ==
    /\ config \in RunConfigs
    /\ args \in {[relax_required |-> FALSE, force_ocr |-> FALSE],
                 [relax_required |-> TRUE, force_ocr |-> TRUE]}
    /\ pdfs \in 1..MaxDocs
    /\ \E rows \in PriorRows : existing_keys = read_existing_keys_from_xlsx(rows)
    /\ seen_in_run = {}
    /\ rows_ok = <<>>
    /\ rows_err = <<>>
    /\ pc = "run"
    /\ doc = 0
    /\ remaining = 0
    /\ pages_done = 0
    /\ trace = <<>>
    /\ full_ocr = {}
    /\ RowIdle
    /\ CpfIdle
    /\ StrIdle

\* raw_row = extract_fields(text, cfg); raw_row = fix_names_if_needed(...);
\* row, issues = clean_and_normalize(raw_row, cfg)
Pipeline(page, c, force_ocr) ==
    clean_and_normalize(
        fix_names_if_needed(extract_fields(page.text, c), page, c, force_ocr), c)

\* the same, tabulated over the pages and configurations of the run
RunPipeline ==
    { [page |-> p, cfg |-> c, force_ocr |-> f, result |-> Pipeline(p, c, f)] :
        p \in RunPages, c \in RunConfigs, f \in BOOLEAN }

\* iter_page_texts: does it run a full-document OCR pass?  unreadable: the
\* except branch; short: the page texts total fewer than 30 characters.
\* Both branches of the length test return the native texts as they are.
iter_page_texts_runs_ocr(unreadable, short) ==
    IF unreadable THEN FALSE
    ELSE IF ~short THEN FALSE
    ELSE FALSE

\* for pdf in pdfs: page_texts = iter_page_texts(pdf); n = 0 is the empty
\* list (unreadable document, or one without pages): "continue"
OpenDocument ==
    /\ pc = "run"
    /\ remaining = 0
    /\ doc < pdfs
    /\ \E n \in 0..(MaxPages - pages_done), short \in BOOLEAN :
        /\ remaining' = n
        /\ full_ocr' = IF iter_page_texts_runs_ocr(n = 0, short)
                       THEN full_ocr \cup {doc + 1} ELSE full_ocr
    /\ doc' = doc + 1
    /\ UNCHANGED <<config, args, pdfs, existing_keys, seen_in_run, rows_ok,
                   rows_err, pc, pages_done, trace, rowVars, cpfVars, strVars>>

\* one iteration of "for idx, text in enumerate(page_texts, start=1)"
ProcessPage ==
    /\ pc = "run"
    /\ remaining > 0
    /\ pages_done' = pages_done + 1
    /\ \E entry \in {e \in RunPipeline : e.cfg = config /\ e.force_ocr = args.force_ocr} :
        LET page == entry.page IN
        IF page.blank
        THEN \* if not text.strip(): continue
             /\ trace' = Append(trace, Entry("blank", NoKey, <<>>, EmptyRow))
             /\ remaining' = remaining - 1
             /\ UNCHANGED <<seen_in_run, rows_ok, rows_err, pc>>
        ELSE IF page.fails
        THEN \* the exception leaves the loop and main(): nothing catches it
             /\ trace' = Append(trace, Entry("failed", NoKey, <<>>, EmptyRow))
             /\ pc' = "aborted"
             /\ UNCHANGED <<seen_in_run, rows_ok, rows_err, remaining>>
        ELSE LET cn == entry.result
                 iss1 == relax(cn.issues, args.relax_required)
                 key == DedupeKey(cn.row)
             IN  IF is_valid_key(key) /\ in_existing(key, existing_keys, seen_in_run)
                 THEN /\ trace' = Append(trace, Entry("skipped", key, iss1, cn.row))
                      /\ remaining' = remaining - 1
                      /\ UNCHANGED <<seen_in_run, rows_ok, rows_err, pc>>
                 ELSE LET iss2 == IF is_valid_key(key) /\ in_seen(key, seen_in_run)
                                  THEN Append(iss1, Issue("dup", "cpf"))
                                  ELSE iss1
                      IN  /\ remaining' = remaining - 1
                          /\ pc' = pc
                          /\ IF ~accepts(iss2)
                             THEN /\ rows_err' = Append(rows_err, <<cn.row, iss2>>)
                                  /\ trace' = Append(trace, Entry("err", key, iss2, cn.row))
                                  /\ UNCHANGED <<seen_in_run, rows_ok>>
                             ELSE /\ rows_ok' = Append(rows_ok, cn.row)
                                  /\ trace' = Append(trace, Entry("ok", key, iss2, cn.row))
                                  /\ seen_in_run' = IF is_valid_key(key)
                                                    THEN seen_in_run \cup {key}
                                                    ELSE seen_in_run
                                  /\ UNCHANGED rows_err
    /\ UNCHANGED <<config, args, pdfs, existing_keys, doc, full_ocr, rowVars,
                   cpfVars, strVars>>

\* the loop over pdfs is exhausted: the rows are handed to the writer
FinishRun ==
    /\ pc = "run"
    /\ remaining = 0
    /\ doc = pdfs
    /\ pc' = "done"
    /\ UNCHANGED <<config, args, pdfs, existing_keys, seen_in_run, rows_ok,
                   rows_err, doc, remaining, pages_done, trace, full_ocr,
                   rowVars, cpfVars, strVars>>

Next == OpenDocument \/ ProcessPage \/ FinishRun

Spec == Init /\ [][Next]_vars

\* --------------------------------------------- the pipeline on a single page
InitRow ==
    /\ config \in Configs
    /\ args = [relax_required |-> FALSE, force_ocr |-> FALSE]
    /\ page_in \in {Page(t) : t \in RowTexts}
    /\ raw_row = EmptyRow
    /\ row_issues = <<>>
    /\ stage = "text"
    /\ first_row = EmptyRow
    /\ ocr_calls = <<>>
    /\ RunIdle
    /\ CpfIdle
    /\ StrIdle

\* raw_row = extract_fields(text, cfg)
RowExtract ==
    /\ stage = "text"
    /\ raw_row' = extract_fields(page_in.text, config)
    /\ first_row' = raw_row'
    /\ stage' = "raw"
    /\ UNCHANGED <<config, args, runVars, page_in, row_issues, ocr_calls,
                   cpfVars, strVars>>

\* raw_row = fix_names_if_needed(raw_row, pdf, idx, cfg, text, force_ocr, lang)
RowFixNames ==
    /\ stage = "raw"
    /\ raw_row' = fix_names_if_needed(raw_row, page_in, config, args.force_ocr)
    /\ ocr_calls' = ocr_backends_called(raw_row, page_in, args.force_ocr)
    /\ stage' = "fixed"
    /\ UNCHANGED <<config, args, runVars, page_in, row_issues, first_row,
                   cpfVars, strVars>>

\* row, issues = clean_and_normalize(raw_row, cfg)
RowNormalize ==
    /\ stage = "fixed"
    /\ LET cn == clean_and_normalize(raw_row, config)
       IN  /\ raw_row' = cn.row
           /\ row_issues' = cn.issues
    /\ stage' = "clean"
    /\ UNCHANGED <<config, args, runVars, page_in, first_row, ocr_calls,
                   cpfVars, strVars>>

NextRow == RowExtract \/ RowFixNames \/ RowNormalize

SpecRow == InitRow /\ [][NextRow]_vars

\* ----------------------------------- names and per-page OCR on a single page
\* native page texts: header line or not, labelled names or not (one of them
\* with Greek look-alikes, one with a Cyrillic one), labelled and fallback
\* registration numbers, a name near the CPF, a building number
NameTexts ==
    { [NoText EXCEPT !.cpf = S_CPF_A, !.hdr_id = h[1], !.hdr_name = h[2],
                     !.lab_benef = b, !.lab_tit = n, !.lab_mat = m[1],
                     !.fb_mat = m[2], !.near = x, !.mae_colon = q,
                     !.addr_numero = u] :
        h \in {<<None, None>>, <<S_HDR_ID, S_NAME>>},
        b \in {None, S_NAME2},
        n \in {None, S_NAME_GR},
        m \in {<<None, None>>, <<None, S_M2>>, <<S_M1, S_M2>>},
        x \in {None, S_NAME3},
        q \in {None, S_MAE_CY},
        u \in {None, S_ADDR_NUM} }

\* what the locator finds in the text an OCR backend returns: nothing;
\* only the mother's name; a whole form with other values; a name that
\* still has Greek look-alikes
OcrTexts ==
    { NoText,
      [NoText EXCEPT !.mae_colon = S_MAE],
      [NoText EXCEPT !.hdr_id = Digs(<<6, 5, 4, 3, 2, 1>>), !.hdr_name = S_NAME3,
                     !.cpf = S_CPF_B, !.mae_colon = S_MAE,
                     !.addr_numero = S_ADDR_NUM],
      [NoText EXCEPT !.lab_tit = S_NAME_GR] }

OcrOutcomes(texts) ==
    { [outcome |-> o, text |-> NoText] : o \in OcrFailures \cup {"empty"} }
      \cup { [outcome |-> "text", text |-> t] : t \in texts }

NamePages ==
    { [blank |-> FALSE, fails |-> FALSE, text |-> t, ocr1 |-> o1, ocr2 |-> o2] :
        t \in NameTexts, o1 \in OcrOutcomes(OcrTexts),
        o2 \in OcrOutcomes({[NoText EXCEPT !.mae_colon = S_MAE]}) }

InitNames ==
    /\ config \in {[required_fields |-> <<>>, patterns |-> AllPatterns,
        syn_celular |-> {}]}
    /\ args \in {[relax_required |-> FALSE, force_ocr |-> f] : f \in BOOLEAN}
    /\ page_in \in NamePages
    /\ raw_row = EmptyRow
    /\ row_issues = <<>>
    /\ stage = "text"
    /\ first_row = EmptyRow
    /\ ocr_calls = <<>>
    /\ RunIdle
    /\ CpfIdle
    /\ StrIdle

NextNames == RowExtract \/ RowFixNames \/ RowNormalize

SpecNames == InitNames /\ [][NextNames]_vars

\* ------------------------------------------------ phone lines of a page
\* pages with one phone line: its label, the DDD and the number matched
PhoneTexts ==
    { [NoText EXCEPT !.cel_found = TRUE, !.cel_label = l, !.cel_ddd = d,
                     !.cel_num = n] :
        l \in {"celular", "cel.", "telefone"},
        d \in {None, S_DDD, Digs(<<2, 1>>)},
        n \in {S_NUM8, S_NUM9, Digs(<<3, 3, 3, 3, 4, 4, 4, 4>>)} }
      \cup {NoText}

\* synonyms.celular of the mapping: none, or labels the user added
PhoneConfigs ==
    { [required_fields |-> <<>>, patterns |-> AllPatterns, syn_celular |-> y] :
        y \in {{}, {"telefone"}, {"whatsapp"}} }

InitPhone ==
    /\ config \in PhoneConfigs
    /\ args = [relax_required |-> FALSE, force_ocr |-> FALSE]
    /\ page_in \in {Page(t) : t \in PhoneTexts}
    /\ raw_row = EmptyRow
    /\ row_issues = <<>>
    /\ stage = "text"
    /\ first_row = EmptyRow
    /\ ocr_calls = <<>>
    /\ RunIdle
    /\ CpfIdle
    /\ StrIdle

NextPhone == RowExtract

SpecPhone == InitPhone /\ [][NextPhone]_vars

\* ------------------------------------- clean_and_normalize on a given record
\* ddd and celular values a caller can hand over in a record
RecordDdds ==
    {None, <<>>, S_DDD, <<"(">> \o S_DDD \o <<")">>, Digs(<<1>>),
     Digs(<<0, 1, 1>>)}

RecordCelulares ==
    {None, <<>>, Digs(<<1, 2, 3, 4>>), S_NUM8, S_NUM9,
     Slice(S_NUM9, 0, 5) \o <<"-">> \o Slice(S_NUM9, 5, 9),
     S_DDD \o S_NUM8, S_DDD \o S_NUM9, S_DDD \o S_DDD \o S_NUM9,
     <<"s", "/", "n">>}

\* values with invisible, repeated and outer whitespace: one for a field no
\* validator looks at, one for a name
S_NAT_WS == <<" ", "B", "ZWSP", "TAB", "R", "LF">>
S_NAME_WS == <<"A", "NBSP", "NBSP", "b", " ">>

RecordInputs ==
    { [EmptyRow EXCEPT !["ddd"] = d, !["celular"] = c, !["cpf"] = p,
                       !["nacionalidade"] = n, !["titular_nome"] = t] :
        d \in RecordDdds, c \in RecordCelulares, p \in {None, S_CPF_A},
        n \in {None, S_NAT_WS}, t \in {None, S_NAME_WS} }

InitRecord ==
    /\ config \in Configs
    /\ args = [relax_required |-> FALSE, force_ocr |-> FALSE]
    /\ page_in = BlankPage
    /\ raw_row \in RecordInputs
    /\ row_issues = <<>>
    /\ stage = "fixed"
    /\ first_row = raw_row
    /\ ocr_calls = <<>>
    /\ RunIdle
    /\ CpfIdle
    /\ StrIdle

NextRecord == RowNormalize

SpecRecord == InitRecord /\ [][NextRecord]_vars

\* ------------------------------------------------------------ normalize_cpf
CpfBases ==
    { <<1, 1, 1, 1, 1, 1, 1, 1, 1>>,
      <<1, 2, 3, 4, 5, 6, 7, 8, 9>>,
      <<1, 1, 1, 4, 4, 4, 7, 7, 7>> }

\* the first CpfVarLen digits of a base replaced by arbitrary digits
CpfBodies ==
    { [i \in 1..9 |-> IF i <= CpfVarLen THEN v[i] ELSE b[i]] :
        v \in [1..CpfVarLen -> 0..9], b \in CpfBases }

CpfShape(body, c1, c2, shape) ==
    LET d == Digs(body \o <<c1, c2>>)
    IN  CASE shape = "plain" -> d
          [] shape = "formatted" ->
               Slice(d, 0, 3) \o <<".">> \o Slice(d, 3, 6) \o <<".">>
                 \o Slice(d, 6, 9) \o <<"-">> \o Slice(d, 9, 11)
          [] shape = "short" -> Slice(d, 0, 10)
          [] shape = "long" -> d \o Digs(<<c2>>)

CpfInputs ==
    { CpfShape(b, c1, c2, sh) :
        b \in CpfBodies, c1 \in 0..9, c2 \in 0..9,
        sh \in {"plain", "formatted", "short", "long"} } \cup {None, <<>>}

InitCpf ==
    /\ config \in {[required_fields |-> <<>>, patterns |-> AllPatterns,
        syn_celular |-> {}]}
    /\ args = [relax_required |-> FALSE, force_ocr |-> FALSE]
    /\ cpf_in \in CpfInputs
    /\ cpf_out = None
    /\ cpf_pc = "in"
    /\ RunIdle
    /\ RowIdle
    /\ StrIdle

ApplyNormalizeCpf ==
    /\ cpf_pc = "in"
    /\ cpf_out' = normalize_cpf(OrEmpty(cpf_in))
    /\ cpf_pc' = "out"
    /\ UNCHANGED <<config, args, runVars, rowVars, cpf_in, strVars>>

NextCpf == ApplyNormalizeCpf

SpecCpf == InitCpf /\ [][NextCpf]_vars

\* ================================================================== claims
\* the pages that reached classification (a record and a final issue list)
Classified(e) == e.outcome \in {"ok", "err", "skipped"}

\* key of a record as the claims define it: digits of the normalized CPF
\* and the trimmed registration number
KeyOfRow(r) ==
    <<SelectSeq(OrEmpty(r["cpf"]), IsDigit),
      Strip(OrEmpty(r["titular_matricula"]))>>

BothNonEmpty(k) == Len(k[1]) > 0 /\ Len(k[2]) > 0

HasDup(iss) == \E n \in 1..Len(iss) : IsDupIssue(iss[n])

Count(outcome) == Cardinality({i \in 1..Len(trace) : trace[i].outcome = outcome})

\* C1 (as claimed): every page taken from a document ends accepted, rejected
\* with a non-empty issue list, or skipped because its valid key is in the
\* prior-output key set; no page ends in any other way.  A page on which
\* processing raised is left to C6.
C1_EveryPageOneOutcome ==
    \A i \in 1..Len(trace) :
        trace[i].outcome # "failed" =>
            \/ trace[i].outcome = "ok"
            \/ trace[i].outcome = "err" /\ trace[i].issues # <<>>
            \/ /\ trace[i].outcome = "skipped"
               /\ BothNonEmpty(KeyOfRow(trace[i].row))
               /\ KeyOfRow(trace[i].row) \in existing_keys

\* C2: a page whose key has both components non-empty and is in
\* existing_keys is skipped: nothing is appended to rows_ok or rows_err for
\* it and its key does not enter seen_in_run.
C2_PriorDuplicateSkipped ==
    /\ \A i \in 1..Len(trace) :
          (Classified(trace[i])
             /\ BothNonEmpty(KeyOfRow(trace[i].row))
             /\ KeyOfRow(trace[i].row) \in existing_keys)
          => trace[i].outcome = "skipped"
    /\ Len(rows_ok) = Count("ok")
    /\ Len(rows_err) = Count("err")
    /\ seen_in_run \cap existing_keys = {}

C2_Witness ==
    \E i \in 1..Len(trace) :
        /\ trace[i].outcome = "skipped"
        /\ KeyOfRow(trace[i].row) \in existing_keys
        /\ Len(rows_ok) + Len(rows_err) = Len(trace) - 1

C4_InvalidKeyNeverDuplicate ==
    /\ \A i \in 1..Len(trace) :
          (Classified(trace[i]) /\ ~BothNonEmpty(KeyOfRow(trace[i].row)))
          => trace[i].outcome # "skipped" /\ ~HasDup(trace[i].issues)
    /\ \A k \in seen_in_run \cup existing_keys : BothNonEmpty(k)

\* two pages with the same half-empty key were both processed
C4_Witness ==
    \E i, j \in 1..Len(trace) :
        /\ i < j
        /\ trace[i].outcome = "ok"
        /\ trace[j].outcome = "ok"
        /\ KeyOfRow(trace[i].row) = KeyOfRow(trace[j].row)
        /\ Len(KeyOfRow(trace[i].row)[1]) > 0
        /\ Len(KeyOfRow(trace[i].row)[2]) = 0

RECURSIVE RowsOf(_, _)
\* the records (with issues for "err") of the pages with the given outcome
RowsOf(tr, outcome) ==
    IF tr = <<>> THEN <<>>
    ELSE (IF Head(tr).outcome = outcome
          THEN <<IF outcome = "err" THEN <<Head(tr).row, Head(tr).issues>>
                 ELSE Head(tr).row>>
          ELSE <<>>)
         \o RowsOf(Tail(tr), outcome)

\* C5: a page that is not skipped is accepted iff its final issue list is
\* empty; rows_ok holds exactly the records with no issue and rows_err
\* exactly the others, each with its issue list.
C5_AcceptedIffNoIssue ==
    /\ \A i \in 1..Len(trace) :
          trace[i].outcome \in {"ok", "err"}
          => (trace[i].outcome = "ok" <=> trace[i].issues = <<>>)
    /\ rows_ok = RowsOf(trace, "ok")
    /\ rows_err = RowsOf(trace, "err")

C5_Witness ==
    /\ \E n \in 1..Len(rows_err) : rows_err[n][2] # <<>> /\ ~HasDup(rows_err[n][2])
    /\ rows_ok # <<>>

\* C6 (as claimed): a page whose processing raises does not end the run;
\* the loop goes on to the pages after it.
C6_FailureDoesNotAbort ==
    \A i \in 1..Len(trace) :
        trace[i].outcome = "failed" => pc \in {"run", "done"}

\* what extraction (and name repair) produced for the page
Extracted ==
    fix_names_if_needed(extract_fields(page_in.text, config), page_in, config,
                        args.force_ocr)

HasIssueFor(f) == \E n \in 1..Len(row_issues) : row_issues[n].field = f

\* cfg.required_fields as a set
RequiredSet == {config.required_fields[n] : n \in 1..Len(config.required_fields)}

\* C7 (as claimed): a field that extraction left absent gets an issue only
\* if it is one of the required fields.
C7_AbsentIssueOnlyIfRequired ==
    stage = "clean" =>
        \A f \in OutputFields :
            (~Truthy(Extracted[f]) /\ HasIssueFor(f)) => f \in RequiredSet

UnconditionalFields == {"cpf", "nascimento", "data_admissao"}

\* C7 (amended): that holds for every field but cpf, nascimento and
\* data_admissao; an absent cpf, nascimento or data_admissao always gets
\* its own issue, required or not.
C7_AbsentIssueOnlyIfRequiredButCpfAndDates ==
    stage = "clean" =>
        /\ \A f \in OutputFields \ UnconditionalFields :
              (~Truthy(Extracted[f]) /\ HasIssueFor(f)) => f \in RequiredSet
        /\ \A f \in UnconditionalFields :
              ~Truthy(Extracted[f]) =>
                  \E n \in 1..Len(row_issues) :
                      /\ row_issues[n].field = f
                      /\ row_issues[n].kind # "required"

\* an absent optional field next to an otherwise clean record: no issue
C7_Witness ==
    /\ stage = "clean"
    /\ ~Truthy(Extracted["nacionalidade"])
    /\ ~Truthy(Extracted["pis"])
    /\ "titular_matricula" \in RequiredSet
    /\ row_issues = <<>>

\* check digit over the first n digits, the textbook way: weights n+1 .. 2,
\* 11 minus the remainder, 10 and 11 giving 0
RECURSIVE RefSum(_, _)
RefSum(d, n) ==
    IF n = 0 THEN 0
    ELSE RefSum(d, n - 1) + DigitVal(d[n]) * (Len(d) + 2 - n)

RefCheckDigit(d) ==
    LET r == RefSum(d, Len(d)) % 11
    IN  IF r < 2 THEN 0 ELSE 11 - r

\* C8: normalize_cpf accepts an 11-digit input iff its digits are not all
\* the same and both check digits match the modulo-11 computation; any
\* other digit count gives None; an accepted value is XXX.XXX.XXX-XX of the
\* same digits.
C8_CpfAcceptedIffChecksum ==
    cpf_pc = "out" =>
        LET d == SelectSeq(OrEmpty(cpf_in), IsDigit)
        IN  /\ Len(d) # 11 => cpf_out = None
            /\ Len(d) = 11 =>
                 (cpf_out # None <=>
                    /\ \E i \in 2..11 : d[i] # d[1]
                    /\ DigitVal(d[10]) = RefCheckDigit(SubSeq(d, 1, 9))
                    /\ DigitVal(d[11]) = RefCheckDigit(SubSeq(d, 1, 10)))
            /\ cpf_out # None =>
                 /\ Len(cpf_out) = 14
                 /\ cpf_out[4] = "." /\ cpf_out[8] = "." /\ cpf_out[12] = "-"
                 /\ SelectSeq(cpf_out, IsDigit) = d

\* 123.456.789-09: the first check digit comes from remainder 10
C8_Witness ==
    /\ cpf_pc = "out"
    /\ cpf_in = Digs(<<1, 2, 3, 4, 5, 6, 7, 8, 9, 0, 9>>)
    /\ cpf_out = <<"1", "2", "3", ".", "4", "5", "6", ".", "7", "8", "9", "-", "0", "9">>

\* C9 (as claimed): with no DDD on the line, the DDD returned for the
\* number is the first two digits of the number as it was found.
C9_DddIsRawPrefix ==
    (stage = "raw" /\ page_in.text.cel_found /\ page_in.text.cel_ddd = None)
    => raw_row["ddd"] = SubSeq(SelectSeq(page_in.text.cel_num, IsDigit), 1, 2)

Strings(alphabet, n) == UNION {[1..k -> alphabet] : k \in 0..n}

\* a blank of the collapsing class, another one, a whitespace character
\* outside the class, an invisible space that is whitespace, one that is
\* not, and a letter
WsAlphabet == {" ", "TAB", "LF", "NBSP", "ZWSP", "a"}

WsInputs == Strings(WsAlphabet, MaxStrLen) \cup {None}

InitWs ==
    /\ config \in {[required_fields |-> <<>>, patterns |-> AllPatterns,
        syn_celular |-> {}]}
    /\ args = [relax_required |-> FALSE, force_ocr |-> FALSE]
    /\ str_in \in WsInputs
    /\ str_out = <<>>
    /\ str_pc = "normalize_ws"
    /\ RunIdle
    /\ RowIdle
    /\ CpfIdle

\* the argument of the next application: the input, then the last result
StrArg == IF str_out = <<>> THEN str_in ELSE str_out[Len(str_out)]

\* row[k] = normalize_ws(v), applied to its own result once more
ApplyNormalizeWs ==
    /\ str_pc = "normalize_ws"
    /\ Len(str_out) < 2
    /\ str_out' = Append(str_out, normalize_ws(StrArg))
    /\ UNCHANGED <<config, args, runVars, rowVars, cpfVars, str_in, str_pc>>

NextWs == ApplyNormalizeWs

SpecWs == InitWs /\ [][NextWs]_vars

\* C11: normalize_ws is idempotent, and an absent input comes back absent.
C11_NormalizeWsIdempotent ==
    str_pc = "normalize_ws" =>
        /\ Len(str_out) = 2 => str_out[2] = str_out[1]
        /\ (str_in = None /\ Len(str_out) >= 1) => str_out[1] = None

\* a string with an invisible space, a run of blanks and a trailing newline
\* was changed by the first application and left alone by the second
C11_Witness ==
    /\ str_pc = "normalize_ws"
    /\ str_in = <<"ZWSP", "a", "LF">>
    /\ str_out = << <<"a">>, <<"a">> >>

\* ----------------------------------------------------------- fix_homoglyphs
\* the keys of the table, a Greek letter that is not a key, a Latin letter
\* and a character above U+024F outside both ranges
GlyphAlphabet == HomoglyphKeys \cup {"gr_pi", "a", "ZWSP"}

GlyphInputs == Strings(GlyphAlphabet, MaxStrLen) \cup {None}

InitGlyph ==
    /\ config \in {[required_fields |-> <<>>, patterns |-> AllPatterns,
        syn_celular |-> {}]}
    /\ args = [relax_required |-> FALSE, force_ocr |-> FALSE]
    /\ str_in \in GlyphInputs
    /\ str_out = <<>>
    /\ str_pc = "fix_homoglyphs"
    /\ RunIdle
    /\ RowIdle
    /\ CpfIdle

\* row[k] = fix_homoglyphs(row.get(k))
ApplyFixHomoglyphs ==
    /\ str_pc = "fix_homoglyphs"
    /\ str_out = <<>>
    /\ str_out' = <<fix_homoglyphs(str_in)>>
    /\ UNCHANGED <<config, args, runVars, rowVars, cpfVars, str_in, str_pc>>

NextGlyph == ApplyFixHomoglyphs

SpecGlyph == InitGlyph /\ [][NextGlyph]_vars

\* where the i-th character of the input lands in the output: every key
\* before it that is replaced by two letters pushes it one place further
PlaceOf(str, i) ==
    i + Cardinality({j \in 1..(i - 1) : Len(HOMOGLYPH_MAP(str[j])) = 2})

\* C12: a string made of table keys only comes back without any Greek or
\* Cyrillic code point, so looks_non_latin is false on it; a character that
\* is not a key is still there, unchanged, in its place.
C12_RepairLeavesNoGreekCyrillic ==
    (str_pc = "fix_homoglyphs" /\ Len(str_out) = 1 /\ str_in # None) =>
        LET res == str_out[1]
        IN  /\ (\A i \in 1..Len(str_in) : str_in[i] \in HomoglyphKeys) =>
                  /\ \A j \in 1..Len(res) : res[j] \notin GreekCyrillic
                  /\ ~looks_non_latin(res)
            /\ Len(res) = PlaceOf(str_in, Len(str_in) + 1) - 1
            /\ \A i \in 1..Len(str_in) :
                  str_in[i] \notin HomoglyphKeys =>
                      res[PlaceOf(str_in, i)] = str_in[i]

\* Greek and Cyrillic keys, one of them replaced by two letters
C12_Witness ==
    /\ str_pc = "fix_homoglyphs"
    /\ str_in = <<"gr_Theta", "cy_o", "gr_Alpha">>
    /\ str_out = << <<"T", "h", "o", "A">> >>

\* ------------------------------------------------- claims on names and OCR
\* C13: when the page has a header line (registration number - NAME), the
\* record extract_fields returns carries the header's registration number
\* and the header's name as title-holder and beneficiary name, whatever the
\* labels, the fallback patterns and the cross-fill would have given.
C13_HeaderValuesWin ==
    (stage \in {"raw", "fixed", "clean"} /\ Truthy(page_in.text.hdr_id)) =>
        /\ first_row["titular_matricula"] = page_in.text.hdr_id
        /\ first_row["titular_nome"] = page_in.text.hdr_name
        /\ first_row["beneficiario_nome"] = page_in.text.hdr_name

\* a header together with conflicting labelled values for all three fields
C13_Witness ==
    /\ stage = "raw"
    /\ page_in.text.hdr_id = S_HDR_ID
    /\ page_in.text.lab_mat = S_M1
    /\ page_in.text.lab_tit = S_NAME_GR
    /\ page_in.text.lab_benef = S_NAME2
    /\ page_in.text.near = S_NAME3
    /\ raw_row["titular_matricula"] = S_HDR_ID
    /\ raw_row["titular_nome"] = S_NAME
    /\ raw_row["beneficiario_nome"] = S_NAME

\* the pages of document d processed so far
PagesOfDoc(d) == SelectSeq(trace, LAMBDA e : e.doc = d)

\* document d has been read to its end and all of its pages were without
\* text: its native text totals fewer than 30 characters
ShortDocumentDone(d) ==
    /\ d < doc \/ (d = doc /\ remaining = 0)
    /\ PagesOfDoc(d) # <<>>
    /\ \A i \in 1..Len(PagesOfDoc(d)) : PagesOfDoc(d)[i].outcome = "blank"

\* C14 (as claimed): a document whose native text totals fewer than 30
\* characters gets one full-document OCR pass when its page texts are
\* acquired.
C14_ShortDocumentGetsOcrPass ==
    \A d \in 1..doc : ShortDocumentDone(d) => d \in full_ocr

\* the three name fields, as the claims list them
TheNameFields == {"mae_nome", "beneficiario_nome", "titular_nome"}

\* C15: when OCR is wanted for the page and neither backend yields text
\* (not installed, tool error, unreadable output, empty output), the record
\* fix_names_if_needed returns is the extracted record with the homoglyph
\* repair applied to the three names and nothing else changed.
C15_OcrFailureDegradesToRepair ==
    (/\ stage = "fixed"
     /\ page_in.ocr1.outcome # "text"
     /\ page_in.ocr2.outcome # "text") =>
        \A k \in OutputFields :
            raw_row[k] = IF k \in TheNameFields
                         THEN fix_homoglyphs(first_row[k])
                         ELSE first_row[k]

\* both backends fail on a page whose title-holder name has Greek
\* look-alikes; the name is repaired and the page is normalized
C15_Witness ==
    /\ stage = "clean"
    /\ ~args.force_ocr
    /\ page_in.ocr1.outcome = "exit"
    /\ page_in.ocr2.outcome = "missing"
    /\ ocr_calls = <<"ocrmypdf", "tesseract">>
    /\ first_row["titular_nome"] = S_NAME_GR
    /\ raw_row["titular_nome"] = S_NAME

HasNoHomoglyphKey(v) ==
    v = None \/ \A i \in 1..Len(v) : v[i] \notin HomoglyphKeys

\* C16: in the record that reaches classification no name field contains a
\* key of the homoglyph table, whether OCR was not needed, not available,
\* or replaced the names.
C16_NamesRepairedAtClassification ==
    stage = "clean" => \A k \in TheNameFields : HasNoHomoglyphKey(raw_row[k])

\* OCR succeeded and put a name with Greek look-alikes into the record
C16_Witness ==
    /\ stage = "clean"
    /\ ocr_calls = <<"ocrmypdf">>
    /\ page_in.ocr1.outcome = "text"
    /\ page_in.ocr1.text.lab_tit = S_NAME_GR
    /\ page_in.text.hdr_name = None
    /\ raw_row["titular_nome"] = S_NAME

\* C17: numero is absent after extraction, after the name fix and after
\* normalization, whatever building number the address holds.
C17_NumeroAlwaysAbsent ==
    stage \in {"raw", "fixed", "clean"} => raw_row["numero"] = None

C17_Witness ==
    /\ stage = "clean"
    /\ page_in.text.addr_numero = S_ADDR_NUM
    /\ page_in.ocr1.outcome = "text"
    /\ page_in.ocr1.text.addr_numero = S_ADDR_NUM
    /\ ocr_calls = <<"ocrmypdf">>
    /\ raw_row["numero"] = None

\* C19: an OCR backend is called for the page exactly when the force flag
\* is set or one of the three names of the extracted record has a suspect
\* glyph.
C19_OcrIffForcedOrSuspect ==
    stage \in {"fixed", "clean"} =>
        (ocr_calls # <<>>
           <=> (args.force_ocr
                  \/ \E k \in TheNameFields : looks_non_latin(first_row[k])))

\* no flag; only the mother's name has a Cyrillic look-alike
C19_Witness ==
    /\ stage = "fixed"
    /\ ~args.force_ocr
    /\ first_row["mae_nome"] = S_MAE_CY
    /\ first_row["titular_nome"] = S_NAME
    /\ first_row["beneficiario_nome"] = S_NAME
    /\ ocr_calls # <<>>

\* the text of the backend whose result fix_names_if_needed used
UsedOcrText ==
    IF page_in.ocr1.outcome = "text" THEN page_in.ocr1.text ELSE page_in.ocr2.text

\* C20: when a backend yields text, fix_names_if_needed changes a field
\* only if it is one of the three names and the re-extraction found a
\* value for it; every other field keeps the value first extracted.
C20_OnlyPopulatedNamesOverwritten ==
    (/\ stage = "fixed"
     /\ ocr_calls # <<>>
     /\ (page_in.ocr1.outcome = "text" \/ page_in.ocr2.outcome = "text")) =>
        LET re_row == extract_fields(UsedOcrText, config)
        IN  \A k \in OutputFields :
              /\ k \notin TheNameFields => raw_row[k] = first_row[k]
              /\ (k \in TheNameFields /\ ~Truthy(re_row[k])) =>
                    raw_row[k] = first_row[k]
              /\ (k \in TheNameFields /\ Truthy(re_row[k])) =>
                    raw_row[k] = re_row[k]

\* the OCR text has only the mother's name: the Greek title-holder name and
\* the registration number stay as extracted
C20_Witness ==
    /\ stage = "fixed"
    /\ ocr_calls = <<"ocrmypdf">>
    /\ page_in.ocr1.text = [NoText EXCEPT !.mae_colon = S_MAE]
    /\ first_row["mae_nome"] = S_MAE_CY
    /\ first_row["titular_nome"] = S_NAME_GR
    /\ raw_row["mae_nome"] = S_MAE
    /\ raw_row["titular_nome"] = S_NAME_GR
    /\ raw_row["titular_matricula"] = S_M1

\* ------------------------------------------------- claims on the key sets
\* C18: in every step of the run existing_keys stays as loaded and
\* seen_in_run only grows; it grows by the key of the page just accepted,
\* and a page flagged as duplicate had its key in seen_in_run before the
\* step, so the tests of a page never see that page's own key.
C18_KeySetsReadThenAppend ==
    [][ /\ existing_keys' = existing_keys
        /\ seen_in_run \subseteq seen_in_run'
        /\ seen_in_run' # seen_in_run =>
              /\ Len(trace') = Len(trace) + 1
              /\ trace'[Len(trace')].outcome = "ok"
              /\ ~HasDup(trace'[Len(trace')].issues)
              /\ seen_in_run' = seen_in_run \cup {trace'[Len(trace')].key}
        /\ (Len(trace') = Len(trace) + 1 /\ HasDup(trace'[Len(trace')].issues)) =>
              trace'[Len(trace')].key \in seen_in_run ]_vars

\* a run with prior keys in which one page was skipped, one accepted with a
\* new key and one flagged as its duplicate
C18_Witness ==
    /\ existing_keys # {}
    /\ seen_in_run # {}
    /\ Len(trace) = 3
    /\ trace[1].outcome = "skipped"
    /\ trace[2].outcome = "ok"
    /\ trace[3].outcome = "err"
    /\ HasDup(trace[3].issues)
    /\ trace[3].key = trace[2].key

\* ------------------------------------------- claims on the order of the OCR
\* the extracted record with the populated names of a re-extraction
OverwrittenFrom(text) ==
    LET re_row == extract_fields(text, config)
    IN  [k \in OutputFields |->
           IF k \in TheNameFields /\ Truthy(re_row[k])
           THEN re_row[k] ELSE first_row[k]]

\* the extracted record with only the homoglyph repair on the names
RepairedOnly ==
    [k \in OutputFields |->
       IF k \in TheNameFields THEN fix_homoglyphs(first_row[k]) ELSE first_row[k]]

\* C21: when OCR is wanted, ocrmypdf is called first and once; tesseract is
\* called, once, exactly when ocrmypdf gave no text; the record comes from
\* the text of the first backend that gave one, and the repair-only result
\* is returned only when neither did.
C21_FirstOcrSuccessWins ==
    (stage \in {"fixed", "clean"} /\ ocr_calls # <<>>) =>
        /\ ocr_calls[1] = "ocrmypdf"
        /\ Len(ocr_calls) <= 2
        /\ Len(ocr_calls) = 2 => ocr_calls[2] = "tesseract"
        /\ Len(ocr_calls) = 2 <=> page_in.ocr1.outcome # "text"
        /\ stage = "fixed" =>
              raw_row = IF page_in.ocr1.outcome = "text"
                        THEN OverwrittenFrom(page_in.ocr1.text)
                        ELSE IF page_in.ocr2.outcome = "text"
                        THEN OverwrittenFrom(page_in.ocr2.text)
                        ELSE RepairedOnly

\* both backends would give a text, with different names: the primary's
\* names are taken and tesseract is not called
C21_Witness ==
    /\ stage = "fixed"
    /\ ocr_calls = <<"ocrmypdf">>
    /\ page_in.ocr1.outcome = "text"
    /\ page_in.ocr1.text.hdr_name = S_NAME3
    /\ page_in.ocr2.outcome = "text"
    /\ page_in.ocr2.text.hdr_name = None
    /\ raw_row["titular_nome"] = S_NAME3

\* ------------------------------------------------ claims on the name fields
\* the names after header and label search, from what the text holds
LabelledBeneficiario ==
    IF Truthy(page_in.text.hdr_name) THEN page_in.text.hdr_name
    ELSE page_in.text.lab_benef

LabelledTitular ==
    IF Truthy(page_in.text.hdr_name) THEN page_in.text.hdr_name
    ELSE page_in.text.lab_tit

\* C22 (as claimed): a name that header and labels left empty is copied
\* from the other name when that one is present; a name found near the CPF
\* never takes the place of an available title-holder name.
C22_CopyBeforeProximity ==
    stage \in {"raw", "fixed", "clean"} =>
        /\ (~Truthy(LabelledBeneficiario) /\ Truthy(LabelledTitular)) =>
              first_row["beneficiario_nome"] = LabelledTitular
        /\ (Truthy(LabelledBeneficiario) /\ ~Truthy(LabelledTitular)) =>
              first_row["titular_nome"] = LabelledBeneficiario

\* C27: in the record extract_fields returns, and in the one
\* fix_names_if_needed returns, the beneficiary name is empty exactly when
\* the title-holder name is.
C27_NamesBothOrNeither ==
    stage \in {"raw", "fixed"} =>
        (Truthy(raw_row["beneficiario_nome"]) <=> Truthy(raw_row["titular_nome"]))

\* only the title-holder label is on the page and OCR overwrote the
\* mother's name alone
C27_Witness ==
    /\ stage = "fixed"
    /\ page_in.text.hdr_name = None
    /\ page_in.text.lab_benef = None
    /\ page_in.text.near = None
    /\ page_in.text.lab_tit = S_NAME_GR
    /\ ocr_calls = <<"ocrmypdf">>
    /\ page_in.ocr1.text = [NoText EXCEPT !.mae_colon = S_MAE]
    /\ raw_row["beneficiario_nome"] = S_NAME_GR
    /\ raw_row["titular_nome"] = S_NAME_GR

\* ------------------------------------------------------ claims on the phone
\* C24 (as claimed): a record gets a ddd or a celular only from a line
\* that has the whole word "celular"; a "telefone" line never gives one,
\* whatever the configuration.
C24_PhoneOnlyFromCelularLine ==
    (stage = "raw" /\ (Truthy(raw_row["ddd"]) \/ Truthy(raw_row["celular"]))) =>
        (page_in.text.cel_found /\ page_in.text.cel_label = "celular")

\* ------------------------------------------------ claims on the accepted list
\* the valid keys of the accepted records
KeysOfAccepted ==
    { KeyOfRow(rows_ok[i]) :
        i \in { n \in 1..Len(rows_ok) : BothNonEmpty(KeyOfRow(rows_ok[n])) } }

\* C25: at every point of a run no two records of rows_ok share a valid
\* key, no record of rows_ok has a valid key that is in existing_keys, and
\* seen_in_run is exactly the set of valid keys of the records of rows_ok.
C25_AcceptedKeysUnique ==
    /\ \A i, j \in 1..Len(rows_ok) :
          (i < j /\ BothNonEmpty(KeyOfRow(rows_ok[i])))
          => KeyOfRow(rows_ok[i]) # KeyOfRow(rows_ok[j])
    /\ KeysOfAccepted \cap existing_keys = {}
    /\ seen_in_run = KeysOfAccepted

\* an accepted record with a valid key, a page with the same key rejected,
\* and a page with another valid key rejected, whose key is not in the set
C25_Witness ==
    /\ Len(rows_ok) >= 1
    /\ KeysOfAccepted # {}
    /\ \E i \in 1..Len(trace) :
          /\ trace[i].outcome = "err"
          /\ KeyOfRow(trace[i].row) \in seen_in_run
    /\ \E i \in 1..Len(trace) :
          /\ trace[i].outcome = "err"
          /\ BothNonEmpty(KeyOfRow(trace[i].row))
          /\ KeyOfRow(trace[i].row) \notin seen_in_run

\* --------------------------------------------- claims on the phone fields
\* two decimal digits
TwoDigits(s) == Len(s) = 2 /\ \A i \in 1..2 : IsDigit(s[i])

\* five digits, a dash, four digits
FiveDashFour(s) ==
    /\ Len(s) = 10
    /\ \A i \in 1..5 : IsDigit(s[i])
    /\ s[6] = "-"
    /\ \A i \in 7..10 : IsDigit(s[i])

WsClean(v) ==
    /\ \A i \in 1..Len(v) : v[i] \notin INVISIBLE_SPACES \cup {"TAB"}
    /\ \A i \in 1..(Len(v) - 1) : ~(v[i] = " " /\ v[i + 1] = " ")
    /\ v # <<>> => (v[1] \notin {" ", "LF"} /\ v[Len(v)] \notin {" ", "LF"})

\* C23: after clean_and_normalize every field of the record that holds a
\* string is a fixed point of normalize_ws: it has no invisible space, no
\* run of blanks and no whitespace at its ends, whether its validator
\* accepted the value, rejected it or never saw it.
C23_FieldsAreWsFixedPoints ==
    stage = "clean" =>
        \A k \in OutputFields :
            raw_row[k] # None =>
                /\ normalize_ws(raw_row[k]) = raw_row[k]
                /\ WsClean(raw_row[k])

\* a field no validator looks at and a name came in with invisible and
\* outer whitespace and went out clean, next to an accepted CPF and a
\* rejected celular
C23_Witness ==
    /\ stage = "clean"
    /\ first_row["nacionalidade"] = S_NAT_WS
    /\ raw_row["nacionalidade"] = <<"B", " ", "R">>
    /\ first_row["titular_nome"] = S_NAME_WS
    /\ raw_row["titular_nome"] = <<"A", " ", "b">>
    /\ Truthy(raw_row["cpf"])
    /\ first_row["celular"] = Digs(<<1, 2, 3, 4>>)
    /\ raw_row["celular"] = None

=============================================================================
